---- MODULE Spec2Model ----
(***************************************************************************)
(* Model of koishi-plugin-keyword-filtering (src/src/index.ts): the group  *)
(* message middleware, its rule loop, the violation-record map with its    *)
(* 24h decay timers, and the mute / non-mute responses.                    *)
(*                                                                         *)
(* Text is a sequence of one-character strings.  The fixed Chinese         *)
(* fragments of the outgoing notices are written as single romanised       *)
(* symbols ("<xiaoshi>" for the hour unit, "<fenzhong>" for the minute     *)
(* unit, ...): the module's character set is ASCII.                        *)
(***************************************************************************)
EXTENDS Integers, Sequences, FiniteSets, TLC

(***************************************************************************)
(* Bounds of the model                                                     *)
(***************************************************************************)
\* number of messages received in one behaviour
MaxMsgs == 3
\* number of clock advances in one behaviour
MaxTicks == 2

(***************************************************************************)
(* Program constants                                                       *)
(***************************************************************************)
\* index.ts:165  24 * 3600 * 1000
DecayMs == 24 * 3600 * 1000
\* granularity of the model's clock: half a decay window
TickMs == DecayMs \div 2
\* index.ts:229  escapedText.slice(0, 2000)
CorrectionLimit == 2000
\* index.ts:241  finalMessage.slice(0, 4500)
MessageLimit == 4500

(***************************************************************************)
(* Characters                                                              *)
(***************************************************************************)
Digits == <<"0", "1", "2", "3", "4", "5", "6", "7", "8", "9">>

UpperCase ==
  {"A", "B", "C", "D", "E", "F", "G", "H", "I", "J", "K", "L", "M",
   "N", "O", "P", "Q", "R", "S", "T", "U", "V", "W", "X", "Y", "Z"}

LowerCase ==
  {"a", "b", "c", "d", "e", "f", "g", "h", "i", "j", "k", "l", "m",
   "n", "o", "p", "q", "r", "s", "t", "u", "v", "w", "x", "y", "z"}

\* the lower-case letter of each upper-case letter
LowerOf ==
  [c \in UpperCase |->
     CASE c = "A" -> "a" [] c = "B" -> "b" [] c = "C" -> "c" [] c = "D" -> "d"
       [] c = "E" -> "e" [] c = "F" -> "f" [] c = "G" -> "g" [] c = "H" -> "h"
       [] c = "I" -> "i" [] c = "J" -> "j" [] c = "K" -> "k" [] c = "L" -> "l"
       [] c = "M" -> "m" [] c = "N" -> "n" [] c = "O" -> "o" [] c = "P" -> "p"
       [] c = "Q" -> "q" [] c = "R" -> "r" [] c = "S" -> "s" [] c = "T" -> "t"
       [] c = "U" -> "u" [] c = "V" -> "v" [] c = "W" -> "w" [] c = "X" -> "x"
       [] c = "Y" -> "y" [] OTHER -> "z"]

\* the 'i' flag of the rule regex: characters compare after case folding
Fold(c) == IF c \in UpperCase THEN LowerOf[c] ELSE c

SameChar(a, b) == Fold(a) = Fold(b)

\* \s of the rule regex
IsSpace(c) == c \in {" ", "\t", "\n", "\r"}

WordChars == UpperCase \cup LowerCase \cup {"_"} \cup {Digits[i] : i \in 1..10}

\* \w of the rule regex
IsWord(c) == c \in WordChars

\* decimal rendering of a natural number, as a template literal renders it
RECURSIVE NumText(_)
NumText(n) ==
  IF n < 10 THEN <<Digits[n + 1]>>
  ELSE NumText(n \div 10) \o <<Digits[(n % 10) + 1]>>

Min(a, b) == IF a <= b THEN a ELSE b

\* String.prototype.slice(0, n)
Slice(s, n) == SubSeq(s, 1, Min(Len(s), n))

\* whether text t occurs in s as a contiguous run
Contains(s, t) ==
  \E i \in 1..(Len(s) - Len(t) + 1) : SubSeq(s, i, i + Len(t) - 1) = t

(***************************************************************************)
(* The rule regex, index.ts:140                                            *)
(*   new RegExp(`(?<!\\$CQ:\\w+.*?\\$CQ)\\s*(${pattern})`, 'gis')          *)
(* The template literal yields the regex source                            *)
(*   (?<!\$CQ:\w+.*?\$CQ)\s*(<pattern>)                                    *)
(* A pattern is the key of a blockingWords entry.  The patterns of the     *)
(* model are non-empty runs of letters and digits, each optionally         *)
(* followed by "+", and the pattern "(" that RegExp rejects.               *)
(***************************************************************************)
\* the text "$CQ:" and "$CQ" of the lookbehind
DollarCQColon == <<"$", "C", "Q", ":">>
DollarCQ == <<"$", "C", "Q">>

\* s[from..to] equals t under the 'i' flag
SameText(s, from, t) ==
  /\ from >= 1
  /\ from + Len(t) - 1 <= Len(s)
  /\ \A k \in 1..Len(t) : SameChar(s[from + k - 1], t[k])

\* (?<!\$CQ:\w+.*?\$CQ) at position p: the text before p ends with
\* "$CQ:", one or more word characters, anything ('s' flag), "$CQ"
LookbehindHit(s, p) ==
  \E i \in 1..(p - 8) :
    /\ SameText(s, i, DollarCQColon)
    /\ IsWord(s[i + 4])
    /\ SameText(s, p - 3, DollarCQ)

\* new RegExp(...) throws a SyntaxError on an unterminated group
ValidPattern(pattern) == \A k \in 1..Len(pattern) : pattern[k] # "("

\* the atoms of a pattern: a character, with or without a "+" quantifier
RECURSIVE Atoms(_)
Atoms(pattern) ==
  IF pattern = <<>> THEN <<>>
  ELSE IF Len(pattern) >= 2 /\ pattern[2] = "+"
       THEN <<[ch |-> pattern[1], plus |-> TRUE]>> \o Atoms(SubSeq(pattern, 3, Len(pattern)))
       ELSE <<[ch |-> pattern[1], plus |-> FALSE]>> \o Atoms(Tail(pattern))

\* length of the run of characters equal to c (under 'i') starting at pos
RECURSIVE RunOf(_, _, _)
RunOf(s, pos, c) ==
  IF pos <= Len(s) /\ SameChar(s[pos], c) THEN 1 + RunOf(s, pos + 1, c) ELSE 0

\* length of the run of \s characters starting at pos
RECURSIVE SpaceRun(_, _)
SpaceRun(s, pos) ==
  IF pos <= Len(s) /\ IsSpace(s[pos]) THEN 1 + SpaceRun(s, pos + 1) ELSE 0

\* backtracking match of the atoms at pos: the position after the match, or
\* 0 when there is none.  "+" is greedy and gives back one character at a
\* time.
RECURSIVE MatchAtoms(_, _, _), TryPlus(_, _, _, _)
MatchAtoms(s, pos, atoms) ==
  IF atoms = <<>> THEN pos
  ELSE LET a == Head(atoms) IN
       IF a.plus
       THEN TryPlus(s, pos, RunOf(s, pos, a.ch), Tail(atoms))
       ELSE IF pos <= Len(s) /\ SameChar(s[pos], a.ch)
            THEN MatchAtoms(s, pos + 1, Tail(atoms))
            ELSE 0

TryPlus(s, pos, j, rest) ==
  IF j < 1 THEN 0
  ELSE LET e == MatchAtoms(s, pos + j, rest) IN
       IF e # 0 THEN e ELSE TryPlus(s, pos, j - 1, rest)

\* \s*(<pattern>) from pos on: \s* is greedy and gives back one at a time
RECURSIVE TrySpace(_, _, _, _)
TrySpace(s, pos, k, atoms) ==
  IF k < 0 THEN 0
  ELSE LET e == MatchAtoms(s, pos + k, atoms) IN
       IF e # 0 THEN e ELSE TrySpace(s, pos, k - 1, atoms)

\* a match of the whole regex starting at pos: the position after it, or 0
MatchAt(s, pos, atoms) ==
  IF LookbehindHit(s, pos) THEN 0
  ELSE TrySpace(s, pos, SpaceRun(s, pos), atoms)

\* regex.test(modifiedMessage), index.ts:141
RegexTest(s, pattern) ==
  \E p \in 1..Len(s) : MatchAt(s, p, Atoms(pattern)) # 0

\* modifiedMessage.replace(regex, word) with the 'g' flag, index.ts:143:
\* leftmost matches, each search resuming after the previous match
RECURSIVE ReplaceFrom(_, _, _, _)
ReplaceFrom(s, pos, atoms, word) ==
  IF pos > Len(s) THEN <<>>
  ELSE LET e == MatchAt(s, pos, atoms) IN
       IF e # 0 THEN word \o ReplaceFrom(s, e, atoms, word)
       ELSE <<s[pos]>> \o ReplaceFrom(s, pos + 1, atoms, word)

RegexReplace(s, pattern, word) == ReplaceFrom(s, 1, Atoms(pattern), word)

(***************************************************************************)
(* handleMsg, index.ts:92-111: the message text from meta.elements         *)
(***************************************************************************)
TokAt == <<"[", "C", "Q", ":", "a", "t", ",", "q", "q", "=">>
TokImage == <<"[", "C", "Q", ":", "i", "m", "a", "g", "e", ",", "f", "i", "l", "e", "=">>
TokFace == <<"[", "C", "Q", ":", "f", "a", "c", "e", ",", "i", "d", "=">>
TokMface == <<"[", "C", "Q", ":", "m", "f", "a", "c", "e", ",", "i", "d", "=">>
TokReply == <<"[", "C", "Q", ":", "r", "e", "p", "l", "y", ",", "i", "d", "=">>
TokEnd == <<"]">>

\* an element of meta.elements: its type and the attribute handleMsg reads
\* (attrs.id, attrs.file, attrs.emojiId or attrs.content)
Element(type, attr) == [type |-> type, attr |-> attr]

\* index.ts:100-106, the switch on e.type
ElementText(e) ==
  CASE e.type = "at" -> TokAt \o e.attr \o TokEnd
    [] e.type = "image" -> TokImage \o e.attr \o TokEnd
    [] e.type = "face" -> TokFace \o e.attr \o TokEnd
    [] e.type = "mface" -> TokMface \o e.attr \o TokEnd
    [] OTHER -> e.attr

\* index.ts:98-108, .map(...).join('')
RECURSIVE JoinElements(_)
JoinElements(elements) ==
  IF elements = <<>> THEN <<>>
  ELSE ElementText(Head(elements)) \o JoinElements(Tail(elements))

(***************************************************************************)
(* Object.entries(groupConfig.blockingWords), index.ts:137.  blockingWords *)
(* is a plain object: its integer-like keys come first, in ascending       *)
(* numeric order, then the other keys in insertion order.  The model keeps *)
(* a blockingWords object as the sequence of its entries in insertion      *)
(* order.                                                                  *)
(***************************************************************************)
DigitValue(c) == CHOOSE d \in 0..9 : Digits[d + 1] = c

IsDigit(c) == \E d \in 0..9 : Digits[d + 1] = c

\* a < b for two texts of decimal digits of the same length
RECURSIVE DigitsLess(_, _)
DigitsLess(a, b) ==
  IF a = <<>> THEN FALSE
  ELSE IF Head(a) # Head(b) THEN DigitValue(Head(a)) < DigitValue(Head(b))
  ELSE DigitsLess(Tail(a), Tail(b))

\* numeric a < b for two canonical decimal texts
NumLess(a, b) == Len(a) < Len(b) \/ (Len(a) = Len(b) /\ DigitsLess(a, b))

\* 2^32 - 2, the largest array index
MaxIndexKey == <<"4", "2", "9", "4", "9", "6", "7", "2", "9", "4">>

\* a canonical array index: decimal digits, no leading zero, below 2^32 - 1
IsIndexKey(key) ==
  /\ Len(key) >= 1
  /\ \A k \in 1..Len(key) : IsDigit(key[k])
  /\ Len(key) = 1 \/ key[1] # "0"
  /\ ~NumLess(MaxIndexKey, key)

RECURSIVE InsertByKey(_, _)
InsertByKey(sorted, entry) ==
  IF sorted = <<>> THEN <<entry>>
  ELSE IF NumLess(entry.pattern, Head(sorted).pattern)
       THEN <<entry>> \o sorted
       ELSE <<Head(sorted)>> \o InsertByKey(Tail(sorted), entry)

RECURSIVE IndexEntries(_), NamedEntries(_)
IndexEntries(entries) ==
  IF entries = <<>> THEN <<>>
  ELSE LET rest == IndexEntries(SubSeq(entries, 1, Len(entries) - 1))
           last == entries[Len(entries)]
       IN IF IsIndexKey(last.pattern) THEN InsertByKey(rest, last) ELSE rest

NamedEntries(entries) ==
  IF entries = <<>> THEN <<>>
  ELSE IF IsIndexKey(Head(entries).pattern)
       THEN NamedEntries(Tail(entries))
       ELSE <<Head(entries)>> \o NamedEntries(Tail(entries))

ObjectEntries(entries) == IndexEntries(entries) \o NamedEntries(entries)

(***************************************************************************)
(* The rule loop, index.ts:130-152                                         *)
(***************************************************************************)
\* index.ts:130-134
LoopStart(message) ==
  [threw |-> FALSE,
   modifiedMessage |-> message,
   needRecall |-> FALSE,
   muteCount |-> 0,
   hasTriggerMuteRule |-> FALSE,
   hasValidReplace |-> FALSE]

\* index.ts:143, the replacement word of a rule
ReplacementOf(rule) == IF rule.replace THEN rule.replaceWord ELSE <<>>

\* faulty variant: the loop without "if (!rule.enable) continue" of index.ts:138
RuleStepNoSkip(st, rule) ==
  IF st.threw THEN st
  ELSE IF ~ValidPattern(rule.pattern) THEN [st EXCEPT !.threw = TRUE]
  ELSE IF RegexTest(st.modifiedMessage, rule.pattern)
       THEN [threw |-> FALSE,
             modifiedMessage |->
               IF rule.enable
               THEN RegexReplace(st.modifiedMessage, rule.pattern,
                                 IF rule.replace THEN rule.replaceWord ELSE <<>>)
               ELSE st.modifiedMessage,
             needRecall |-> st.needRecall \/ rule.recall,
             muteCount |-> IF rule.triggerMute THEN 1 ELSE st.muteCount,
             hasTriggerMuteRule |-> st.hasTriggerMuteRule \/ rule.triggerMute,
             hasValidReplace |-> st.hasValidReplace \/ rule.enable]
       ELSE st

\* faulty variant: muteCount counts the matching mute-triggering rules
RuleStepPerRule(st, rule) ==
  IF st.threw \/ ~rule.enable THEN st
  ELSE IF ~ValidPattern(rule.pattern) THEN [st EXCEPT !.threw = TRUE]
  ELSE IF RegexTest(st.modifiedMessage, rule.pattern)
       THEN [threw |-> FALSE,
             modifiedMessage |->
               RegexReplace(st.modifiedMessage, rule.pattern, ReplacementOf(rule)),
             needRecall |-> st.needRecall \/ rule.recall,
             muteCount |-> IF rule.triggerMute THEN st.muteCount + 1
                           ELSE st.muteCount,
             hasTriggerMuteRule |-> st.hasTriggerMuteRule \/ rule.triggerMute,
             hasValidReplace |-> TRUE]
       ELSE st

\* faulty variant: a matching mute-triggering rule leaves muteCount at 0
RuleStepNoCount(st, rule) ==
  IF st.threw \/ ~rule.enable THEN st
  ELSE IF ~ValidPattern(rule.pattern) THEN [st EXCEPT !.threw = TRUE]
  ELSE IF RegexTest(st.modifiedMessage, rule.pattern)
       THEN [threw |-> FALSE,
             modifiedMessage |->
               RegexReplace(st.modifiedMessage, rule.pattern, ReplacementOf(rule)),
             needRecall |-> st.needRecall \/ rule.recall,
             muteCount |-> st.muteCount,
             hasTriggerMuteRule |-> st.hasTriggerMuteRule \/ rule.triggerMute,
             hasValidReplace |-> TRUE]
       ELSE st

\* index.ts:138-151, one iteration of the loop
RuleStep(st, rule) ==
  IF st.threw \/ ~rule.enable THEN st
  ELSE IF ~ValidPattern(rule.pattern) THEN [st EXCEPT !.threw = TRUE]
  ELSE IF RegexTest(st.modifiedMessage, rule.pattern)
       THEN [threw |-> FALSE,
             modifiedMessage |->
               RegexReplace(st.modifiedMessage, rule.pattern, ReplacementOf(rule)),
             needRecall |-> st.needRecall \/ rule.recall,
             muteCount |-> IF rule.triggerMute THEN 1 ELSE st.muteCount,
             hasTriggerMuteRule |-> st.hasTriggerMuteRule \/ rule.triggerMute,
             hasValidReplace |-> TRUE]
       ELSE st

RECURSIVE RunRules(_, _)
RunRules(st, rules) ==
  IF rules = <<>> THEN st
  ELSE RunRules(RuleStep(st, Head(rules)), Tail(rules))

\* faulty variant: the rules visited in the order they were entered
InsertionOrder(blockingWords) == blockingWords

\* the order in which the loop visits the rules of a policy
RuleOrder(blockingWords) == ObjectEntries(blockingWords)

\* index.ts:130-152
RuleLoop(groupConfig, message) ==
  RunRules(LoopStart(message), RuleOrder(groupConfig.blockingWords))

(***************************************************************************)
(* Outgoing texts                                                          *)
(***************************************************************************)
NewLine == <<"\n">>
Amp == <<"&", "a", "m", "p", ";">>

\* faulty variant: the minutes rounded down
DurationTextFloor(totalSeconds) ==
  LET hours == totalSeconds \div 3600
      minutes == (totalSeconds % 3600) \div 60
  IN (IF hours > 0 THEN NumText(hours) \o <<"<xiaoshi>">> ELSE <<>>)
     \o (IF minutes > 0 THEN NumText(minutes) \o <<"<fenzhong>">> ELSE <<>>)

\* index.ts:183-188
DurationText(totalSeconds) ==
  LET hours == totalSeconds \div 3600
      minutes == ((totalSeconds % 3600) + 59) \div 60
  IN (IF hours > 0 THEN NumText(hours) \o <<"<xiaoshi>">> ELSE <<>>)
     \o (IF minutes > 0 THEN NumText(minutes) \o <<"<fenzhong>">> ELSE <<>>)

\* index.ts:195 and 218: `[CQ:at,qq=${meta.userId}] ${alertContent}\n`
AlertLine(groupConfig, userId) ==
  TokAt \o userId \o TokEnd \o <<" ">> \o groupConfig.alertContent \o NewLine

\* index.ts:190-198, the text of the mute notice
MuteNotice(groupConfig, userId, message, st, count) ==
  LET contentPart ==
        IF st.hasValidReplace /\ st.modifiedMessage # message
        THEN groupConfig.correctPrefix \o st.modifiedMessage \o NewLine
        ELSE <<>>
  IN AlertLine(groupConfig, userId)
     \o contentPart
     \o <<"<yinleijiweigui>", " ">> \o NumText(count) \o <<"/">>
     \o NumText(groupConfig.muteConfig.threshold)
     \o <<" ", "<ci,yibeijinyan>", " ">>
     \o DurationText(groupConfig.muteConfig.duration)

\* index.ts:221-222: modifiedMessage.split(/$CQ:[^$]*]/g).  In that regex
\* "$" is the end-of-input assertion, and no "C" follows the end of the
\* input: the regex matches nowhere and split returns the whole text as
\* its only part.
CqSplit(text) == <<text>>

\* index.ts:226, part.replace(/&/g, '&amp;')
RECURSIVE EscapeAmp(_)
EscapeAmp(text) ==
  IF text = <<>> THEN <<>>
  ELSE (IF Head(text) = "&" THEN Amp ELSE <<Head(text)>>) \o EscapeAmp(Tail(text))

\* index.ts:223-228: parts at even (0-based) indexes are escaped
RECURSIVE EscapeParts(_, _)
EscapeParts(parts, i) ==
  IF i >= Len(parts) THEN <<>>
  ELSE (IF i % 2 = 0 THEN EscapeAmp(parts[i + 1]) ELSE parts[i + 1])
       \o EscapeParts(parts, i + 1)

EscapedText(modifiedMessage) == EscapeParts(CqSplit(modifiedMessage), 0)

\* index.ts:216-241, the text of the non-mute notice.  count is
\* violationRecords.get(key)?.count || 0 at the time of composing.
FinalMessage(groupConfig, userId, quoteId, message, st, count) ==
  LET reply == IF quoteId # <<>> THEN TokReply \o quoteId \o TokEnd ELSE <<>>
      correction ==
        IF st.hasValidReplace /\ st.modifiedMessage # message
        THEN groupConfig.correctPrefix
             \o Slice(EscapedText(st.modifiedMessage), CorrectionLimit) \o NewLine
        ELSE <<>>
      tail ==
        IF st.hasTriggerMuteRule /\ groupConfig.muteConfig.enable
        THEN <<"<leijiweigui>", " ">> \o NumText(count) \o <<"/">>
             \o NumText(groupConfig.muteConfig.threshold)
             \o <<" ", "<cihoujinyan!>">>
        ELSE groupConfig.customMessage
  IN Slice(reply \o AlertLine(groupConfig, userId) \o correction \o tail,
           MessageLimit)

(***************************************************************************)
(* Configurations: ctx.config.blockingRules, index.ts:17-41                *)
(***************************************************************************)
\* a blockingWords entry: its key (the pattern) and its BlockingWords value
Word(pattern, enable, triggerMute, recall, replace, replaceWord) ==
  [pattern |-> pattern, enable |-> enable, triggerMute |-> triggerMute,
   recall |-> recall, replace |-> replace, replaceWord |-> replaceWord]

\* schema defaults, index.ts:65-73
DefaultCustom == <<"<qingzunshouqungui!>">>
DefaultAlert == <<"<jiancedaoweiguineirong!>">>
DefaultPrefix == <<"<xiuzhengneirong:>">>

GroupRule(groupId, enable, muteConfig, blockingWords, customMessage, alertContent, correctPrefix) ==
  [groupId |-> groupId, enable |-> enable, muteConfig |-> muteConfig,
   blockingWords |-> blockingWords, customMessage |-> customMessage,
   alertContent |-> alertContent, correctPrefix |-> correctPrefix]

MuteConfig(enable, threshold, duration) ==
  [enable |-> enable, threshold |-> threshold, duration |-> duration]

\* schema default of muteConfig, index.ts:52-54
MuteOff == MuteConfig(FALSE, 3, 600)

TxtSpam == <<"s", "p", "a", "m">>
TxtStars == <<"*", "*", "*">>
TxtWarning == <<"W", "a", "r", "n", "i", "n", "g", "!">>
TxtFixed == <<"F", "i", "x", "e", "d", ":", " ">>
TxtThisIsSpam == <<"t", "h", "i", "s", " ", "i", "s", " ", "s", "p", "a", "m">>
TxtAaa == <<"a", "a", "a">>
Txt12345 == <<"1", "2", "3", "4", "5">>
TxtBad == <<"b", "a", "d">>
TxtBadX == <<"b", "a", "d", " ", "x">>
TxtOk == <<"o", "k">>
TxtSpamAmp == <<"s", "p", "a", "m", "&">>

\* group 10001: one replacing rule, no recall, mute disabled
GroupSpam ==
  GroupRule("10001", TRUE, MuteOff,
            <<Word(TxtSpam, TRUE, FALSE, FALSE, TRUE, TxtStars)>>,
            DefaultCustom, TxtWarning, TxtFixed)

\* group 10002: "a+" replaced by "X", then "X" with recall
GroupOrder ==
  GroupRule("10002", TRUE, MuteOff,
            <<Word(<<"a", "+">>, TRUE, FALSE, FALSE, TRUE, <<"X">>),
              Word(<<"X">>, TRUE, FALSE, TRUE, FALSE, <<>>)>>,
            <<>>, DefaultAlert, DefaultPrefix)

\* group 10003: a pattern that occurs in a mention's qq attribute, entered
\* after a pattern that is no integer-like key
GroupDigits ==
  GroupRule("10003", TRUE, MuteOff,
            <<Word(<<"#">>, TRUE, FALSE, TRUE, FALSE, <<>>),
              Word(Txt12345, TRUE, FALSE, FALSE, TRUE, <<"#">>)>>,
            DefaultCustom, DefaultAlert, DefaultPrefix)

\* group 10004: mute enabled; "bad" counts and is replaced, "x" counts and
\* recalls
GroupMute(threshold, duration) ==
  GroupRule("10004", TRUE, MuteConfig(TRUE, threshold, duration),
            <<Word(TxtBad, TRUE, TRUE, FALSE, TRUE, <<"*">>),
              Word(<<"x">>, TRUE, TRUE, TRUE, FALSE, <<>>)>>,
            DefaultCustom, DefaultAlert, DefaultPrefix)

\* group 10005: the group rule is disabled
GroupOff ==
  GroupRule("10005", FALSE, MuteConfig(TRUE, 1, 60),
            <<Word(TxtBad, TRUE, TRUE, TRUE, TRUE, <<"*">>)>>,
            DefaultCustom, DefaultAlert, DefaultPrefix)

\* group 10006: every rule is disabled
GroupNoRules ==
  GroupRule("10006", TRUE, MuteConfig(TRUE, 1, 60),
            <<Word(TxtBad, FALSE, TRUE, TRUE, TRUE, <<"*">>),
              Word(<<"x">>, FALSE, TRUE, TRUE, FALSE, <<>>)>>,
            DefaultCustom, DefaultAlert, DefaultPrefix)

\* group 10007: a pattern RegExp rejects, after a rule that matches
GroupBroken ==
  GroupRule("10007", TRUE, MuteConfig(TRUE, 1, 60),
            <<Word(TxtBad, TRUE, TRUE, TRUE, TRUE, <<"*">>),
              Word(<<"(">>, TRUE, FALSE, FALSE, FALSE, <<>>)>>,
            DefaultCustom, DefaultAlert, DefaultPrefix)

\* the threshold and duration settings of group 10004
MuteSettings == {MuteConfig(TRUE, 1, 60), MuteConfig(TRUE, 3, 3661)}

\* the values of ctx.config.blockingRules the model starts from
WordsConfig == <<GroupSpam, GroupOrder, GroupDigits>>
GuardsConfig == <<GroupOff, GroupNoRules, GroupBroken>>
Configs ==
  {WordsConfig, GuardsConfig}
  \cup {<<GroupMute(m.threshold, m.duration)>> : m \in MuteSettings}

\* a group id no configuration has
NoGroup == "10008"

\* configDict.get(groupId), index.ts:115-117 and 123: the Map keeps the last
\* rule of a group id.  The result is <<rule>>, or <<>> for undefined.
RECURSIVE ConfigGet(_, _)
ConfigGet(rules, groupId) ==
  IF rules = <<>> THEN <<>>
  ELSE LET last == rules[Len(rules)] IN
       IF last.groupId = groupId THEN <<last>>
       ELSE ConfigGet(SubSeq(rules, 1, Len(rules) - 1), groupId)

\* index.ts:124, groupConfig?.enable
PolicyEnabled(got) == got # <<>> /\ got[1].enable

(***************************************************************************)
(* State                                                                   *)
(***************************************************************************)
VARIABLES
  blockingRules,     \* ctx.config.blockingRules
  botRole,           \* the role getGroupMemberInfo reports for the bot itself
  violationRecords,  \* the Map: record key -> reference to a record object
  heap,              \* the ViolationRecord objects ever created, by reference
  timers,            \* references of the records whose setTimeout is pending
  now,               \* the clock, in ms
  received,          \* messages received so far
  pc,                \* where each middleware invocation stands
  meta,              \* the session of each invocation
  loc,               \* the local variables of each invocation; filtered
                     \* tells whether the rule loop has run to its end
  acts,              \* the adapter calls each invocation has made
  sent,              \* the text each invocation passed to sendGroupMsg
  nextCalls,         \* how often each invocation has called next()
  registered,        \* per record object: registrations since its creation
  muted              \* per record object: whether a mute was issued on it

vars ==
  <<blockingRules, botRole, violationRecords, heap, timers, now, received,
    pc, meta, loc, acts, sent, nextCalls, registered, muted>>

\* the middleware invocations that can be in flight at once
Handlers == {1, 2}

Users == {<<"4", "2">>}

Roles == {"owner", "admin", "member"}

\* the roles the bot has under a configuration: index.ts:128 treats owner
\* as it treats admin, and owner is tried on one configuration
RolesUnder(rules) ==
  IF rules = WordsConfig THEN Roles ELSE Roles \ {"owner"}

\* "group": a onebot group message; "private": a onebot message of another
\* subtype; "other": a session without meta.onebot
Kinds == {"group", "private", "other"}

TextOf(t) == <<Element("text", t)>>

GroupsOf(rules) == {rules[i].groupId : i \in 1..Len(rules)} \cup {NoGroup}

\* the content of a session: meta.elements and meta.quote?.id
Content(elements, quoteId) == [elements |-> elements, quoteId |-> quoteId]

\* the group messages sent to each group: the texts its rules tell apart,
\* some of them quoting another message
Traffic(groupId) ==
  CASE groupId = "10001" -> {Content(TextOf(TxtThisIsSpam), <<>>),
                             Content(TextOf(TxtOk), <<"9">>),
                             Content(<<Element("text", TxtSpamAmp),
                                       Element("image", <<"&">>)>>, <<>>)}
    [] groupId = "10002" -> {Content(TextOf(TxtAaa), <<"9">>)}
    [] groupId = "10003" -> {Content(<<Element("at", Txt12345)>>, <<>>)}
    [] groupId = "10004" -> {Content(TextOf(TxtBad), <<>>),
                             Content(TextOf(TxtBadX), <<"9">>)}
    [] groupId = "10006" -> {Content(TextOf(TxtBadX), <<>>)}
    [] OTHER -> {Content(TextOf(TxtBad), <<>>)}

\* the sessions the middleware is called with: the group messages of each
\* group, and one session of each other kind in the first group
Sessions(rules) ==
  {[kind |-> "group", guildId |-> g, userId |-> u, elements |-> c.elements,
    quoteId |-> c.quoteId] :
     <<g, u, c>> \in UNION {{<<g, u, c>> : u \in Users, c \in Traffic(g)} :
                            g \in GroupsOf(rules)}}
  \cup {[kind |-> k, guildId |-> g, userId |-> u,
         elements |-> TextOf(TxtBad), quoteId |-> <<>>] :
          <<k, g, u>> \in (Kinds \ {"group"}) \X {rules[1].groupId} \X Users}

\* every group rule of every configuration, and every message text
AllGroupRules == UNION {{c[i] : i \in 1..Len(c)} : c \in Configs}
AllMessages ==
  {JoinElements(s.elements) : s \in UNION {Sessions(c) : c \in Configs}}

\* the results of the rule loop, computed once for each policy and message
LoopResults ==
  [groupConfig \in AllGroupRules, message \in AllMessages |->
     RuleLoop(groupConfig, message)]

\* `${groupId}:${meta.userId}`, index.ts:156: group ids are digits, so the
\* key determines the pair
RecordKey(groupId, userId) == <<groupId, userId>>

NoMeta ==
  [kind |-> "other", guildId |-> NoGroup, userId |-> <<>>, elements |-> <<>>,
   quoteId |-> <<>>]

NoLoc ==
  [filtered |-> FALSE, message |-> <<>>, modifiedMessage |-> <<>>,
   needRecall |-> FALSE, muteCount |-> 0, hasTriggerMuteRule |-> FALSE,
   hasValidReplace |-> FALSE, shouldMute |-> FALSE, record |-> 0]

\* Map operations on violationRecords
MapHas(m, k) == k \in DOMAIN m
MapSet(m, k, v) == [x \in (DOMAIN m) \cup {k} |-> IF x = k THEN v ELSE m[x]]
MapDelete(m, k) == [x \in (DOMAIN m) \ {k} |-> m[x]]
EmptyMap == [x \in {} |-> 0]

Init ==
  /\ blockingRules \in Configs
  /\ botRole \in RolesUnder(blockingRules)
  /\ violationRecords = EmptyMap
  /\ heap = <<>>
  /\ timers = {}
  /\ now = 0
  /\ received = 0
  /\ pc = [h \in Handlers |-> "idle"]
  /\ meta = [h \in Handlers |-> NoMeta]
  /\ loc = [h \in Handlers |-> NoLoc]
  /\ acts = [h \in Handlers |-> <<>>]
  /\ sent = [h \in Handlers |-> <<>>]
  /\ nextCalls = [h \in Handlers |-> 0]
  /\ registered = <<>>
  /\ muted = <<>>

\* the group's rule, for an invocation that passed index.ts:124
ConfigOf(h) == ConfigGet(blockingRules, meta[h].guildId)[1]

KeyOf(h) == RecordKey(meta[h].guildId, meta[h].userId)

\* an adapter call just made, not yet settled
Call(op) == [op |-> op, result |-> "pending"]

\* the last adapter call of a sequence settled with a result
Settled(calls, result) ==
  [calls EXCEPT ![Len(calls)] = [@ EXCEPT !.result = result]]

Outcomes == {"ok", "fail"}

\* faulty variant: every role passes the check of index.ts:128
IsAnyRole(role) == role \in {"admin", "owner", "member"}

\* index.ts:128
IsElevated(role) == role \in {"admin", "owner"}

\* index.ts:155
MuteApplies(groupConfig, st) ==
  groupConfig.muteConfig.enable /\ st.hasTriggerMuteRule

\* index.ts:160-166: a new record object
NewRecord(key, time) == [count |-> 0, key |-> key, due |-> time + DecayMs]

\* index.ts:170
Incremented(count, muteCount) == count + muteCount

\* faulty variant: the threshold must be exceeded, not reached
ShouldMuteStrict(count, threshold) == count > threshold

\* index.ts:171
ShouldMute(count, threshold) == count >= threshold

\* faulty variant: the guard of index.ts:208 without "&& !shouldMute"
NonMuteGuardAlways(message, modifiedMessage, needRecall, shouldMute) ==
  modifiedMessage # message \/ needRecall

\* index.ts:208
NonMuteGuard(message, modifiedMessage, needRecall, shouldMute) ==
  (modifiedMessage # message \/ needRecall) /\ ~shouldMute

\* index.ts:233-234, record?.count || 0
CountOf(map, objects, key) ==
  IF MapHas(map, key) THEN objects[map[key]].count ELSE 0

\* the loop results held in the locals of an invocation
StateOf(l) ==
  [threw |-> FALSE, modifiedMessage |-> l.modifiedMessage,
   needRecall |-> l.needRecall, muteCount |-> l.muteCount,
   hasTriggerMuteRule |-> l.hasTriggerMuteRule,
   hasValidReplace |-> l.hasValidReplace]

(***************************************************************************)
(* The middleware, index.ts:119-251.  An action is the code that runs      *)
(* between two suspension points of one invocation.                        *)
(***************************************************************************)
\* where an invocation stands after a run of synchronous code: its pc, its
\* adapter calls, the text it sent last and the next() calls it made
Goto(h, r) ==
  /\ pc' = [pc EXCEPT ![h] = r.pc]
  /\ acts' = [acts EXCEPT ![h] = r.acts]
  /\ sent' = [sent EXCEPT ![h] = r.sent]
  /\ nextCalls' = [nextCalls EXCEPT ![h] = @ + r.next]

\* index.ts:250, return next()
Return(h, calls) ==
  [pc |-> "done", acts |-> calls, sent |-> sent[h], next |-> 1]

\* index.ts:216-241: compose the notice and call sendGroupMsg
SendNonMute(h, l, calls, map, objects) ==
  [pc |-> "n_send",
   acts |-> Append(calls, Call("send")),
   sent |-> FinalMessage(ConfigOf(h), meta[h].userId, meta[h].quoteId,
                         l.message, StateOf(l), CountOf(map, objects, KeyOf(h))),
   next |-> 0]

\* index.ts:208-250: from the non-mute guard on
FromNonMuteGuard(h, l, calls, map, objects) ==
  IF NonMuteGuard(l.message, l.modifiedMessage, l.needRecall, l.shouldMute)
  THEN IF l.needRecall
       THEN [pc |-> "n_delete", acts |-> Append(calls, Call("delete")),
             sent |-> sent[h], next |-> 0]
       ELSE SendNonMute(h, l, calls, map, objects)
  ELSE Return(h, calls)

\* faulty variant: the mute notice sent before setGroupBan is called
EnterMuteNoticeFirst(h, l, calls) ==
  IF l.needRecall
  THEN [pc |-> "m_delete", acts |-> Append(calls, Call("delete")),
        sent |-> sent[h], next |-> 0]
  ELSE [pc |-> "m_ban",
        acts |-> Append(Append(calls, [op |-> "send", result |-> "ok"]),
                        Call("ban")),
        sent |-> sent[h], next |-> 0]

\* faulty variant: the mute branch without the recall of index.ts:176-179
EnterMuteNoRecall(h, l, calls) ==
  [pc |-> "m_ban", acts |-> Append(calls, Call("ban")),
   sent |-> sent[h], next |-> 0]

\* index.ts:173-181: entering the mute branch
EnterMute(h, l, calls) ==
  IF l.needRecall
  THEN [pc |-> "m_delete", acts |-> Append(calls, Call("delete")),
        sent |-> sent[h], next |-> 0]
  ELSE [pc |-> "m_ban", acts |-> Append(calls, Call("ban")),
        sent |-> sent[h], next |-> 0]

\* faulty variant: the lookup and the loop outside the try block; the rejection
\* leaves the middleware and next() is not called
Uncaught(h) ==
  [pc |-> "thrown", acts |-> acts[h], sent |-> sent[h], next |-> 0]

\* index.ts:246-248: the try block of 126 encloses the lookup and the loop
OuterCatch(h) == Return(h, acts[h])

\* index.ts:119-127: a message arrives; the code runs to the first await
Receive(h) ==
  /\ pc[h] \in {"idle", "done"}
  /\ received < MaxMsgs
  /\ \E session \in Sessions(blockingRules) :
       LET passes == session.kind = "group"
                     /\ PolicyEnabled(ConfigGet(blockingRules, session.guildId))
       IN /\ meta' = [meta EXCEPT ![h] = session]
          /\ pc' = [pc EXCEPT ![h] = IF passes THEN "lookup" ELSE "done"]
          /\ nextCalls' = [nextCalls EXCEPT ![h] = IF passes THEN 0 ELSE 1]
  /\ received' = received + 1
  /\ loc' = [loc EXCEPT ![h] = NoLoc]
  /\ acts' = [acts EXCEPT ![h] = <<>>]
  /\ sent' = [sent EXCEPT ![h] = <<>>]
  /\ UNCHANGED <<blockingRules, botRole, violationRecords, heap, timers, now,
                 registered, muted>>

\* index.ts:93-96 and 246-250: a getGroupMemberInfo call rejects
LookupFails(h) ==
  /\ pc[h] = "lookup"
  /\ Goto(h, OuterCatch(h))
  /\ UNCHANGED <<blockingRules, botRole, violationRecords, heap, timers, now,
                 received, meta, loc, registered, muted>>

\* index.ts:127-128: the lookup returns and the bot has no elevated role
LookupNotElevated(h) ==
  /\ pc[h] = "lookup"
  /\ ~IsElevated(botRole)
  /\ loc' = [loc EXCEPT ![h] =
               [NoLoc EXCEPT !.message = JoinElements(meta[h].elements)]]
  /\ Goto(h, Return(h, acts[h]))
  /\ UNCHANGED <<blockingRules, botRole, violationRecords, heap, timers, now,
                 received, meta, registered, muted>>

\* index.ts:127-152 and 246-250: new RegExp throws in the loop
FilterThrows(h) ==
  /\ pc[h] = "lookup"
  /\ IsElevated(botRole)
  /\ LET message == JoinElements(meta[h].elements) IN
       /\ LoopResults[ConfigOf(h), message].threw
       /\ loc' = [loc EXCEPT ![h] = [NoLoc EXCEPT !.message = message]]
  /\ Goto(h, OuterCatch(h))
  /\ UNCHANGED <<blockingRules, botRole, violationRecords, heap, timers, now,
                 received, meta, registered, muted>>

\* index.ts:127-181 and 208-217: the lookup returns, the loop runs, the
\* violation is registered, and the code runs to its next await or its end
Moderate(h) ==
  /\ pc[h] = "lookup"
  /\ LET groupConfig == ConfigOf(h)
           message == JoinElements(meta[h].elements)
           st == LoopResults[groupConfig, message]
           key == KeyOf(h)
           applies == MuteApplies(groupConfig, st)
           has == MapHas(violationRecords, key)
           ref == IF has THEN violationRecords[key] ELSE Len(heap) + 1
           created == IF has THEN heap ELSE Append(heap, NewRecord(key, now))
           objects ==
             IF applies
             THEN [created EXCEPT ![ref].count = Incremented(@, st.muteCount)]
             ELSE heap
           map ==
             IF applies /\ ~has
             THEN MapSet(violationRecords, key, ref) ELSE violationRecords
           l == [filtered |-> TRUE, message |-> message,
                 modifiedMessage |-> st.modifiedMessage,
                 needRecall |-> st.needRecall, muteCount |-> st.muteCount,
                 hasTriggerMuteRule |-> st.hasTriggerMuteRule,
                 hasValidReplace |-> st.hasValidReplace,
                 shouldMute |->
                   applies /\ ShouldMute(objects[ref].count,
                                         groupConfig.muteConfig.threshold),
                 record |-> IF applies THEN ref ELSE 0]
       IN
       /\ IsElevated(botRole)
       /\ ~st.threw
       /\ heap' = objects
       /\ violationRecords' = map
       /\ timers' = IF applies /\ ~has THEN timers \cup {ref} ELSE timers
       /\ registered' =
            IF ~applies THEN registered
            ELSE IF has THEN [registered EXCEPT ![ref] = @ + 1]
            ELSE Append(registered, 1)
       /\ muted' = IF applies /\ ~has THEN Append(muted, FALSE) ELSE muted
       /\ loc' = [loc EXCEPT ![h] = l]
       /\ Goto(h, IF l.shouldMute THEN EnterMute(h, l, acts[h])
                  ELSE FromNonMuteGuard(h, l, acts[h], map, objects))
  /\ UNCHANGED <<blockingRules, botRole, now, received, meta>>

\* index.ts:177-181: deleteMsg settles (a rejection is caught by .catch),
\* then setGroupBan is called
MuteDeleteSettles(h) ==
  /\ pc[h] = "m_delete"
  /\ \E result \in Outcomes :
       Goto(h, [pc |-> "m_ban",
                acts |-> Append(Settled(acts[h], result), Call("ban")),
                sent |-> sent[h], next |-> 0])
  /\ UNCHANGED <<blockingRules, botRole, violationRecords, heap, timers, now,
                 received, meta, loc, registered, muted>>

\* index.ts:181 and 202-208: setGroupBan rejects
MuteBanFails(h) ==
  /\ pc[h] = "m_ban"
  /\ Goto(h, FromNonMuteGuard(h, loc[h], Settled(acts[h], "fail"),
                              violationRecords, heap))
  /\ UNCHANGED <<blockingRules, botRole, violationRecords, heap, timers, now,
                 received, meta, loc, registered, muted>>

\* index.ts:181-198: setGroupBan returns; the notice is composed and
\* sendGroupMsg is called
MuteBanReturns(h) ==
  /\ pc[h] = "m_ban"
  /\ Goto(h, [pc |-> "m_send",
              acts |-> Append(Settled(acts[h], "ok"), Call("send")),
              sent |-> MuteNotice(ConfigOf(h), meta[h].userId, loc[h].message,
                                  StateOf(loc[h]), heap[loc[h].record].count),
              next |-> 0])
  /\ muted' = [muted EXCEPT ![loc[h].record] = TRUE]
  /\ UNCHANGED <<blockingRules, botRole, violationRecords, heap, timers, now,
                 received, meta, loc, registered>>

\* index.ts:194-198 and 202-208: sendGroupMsg rejects in the mute branch
MuteSendFails(h) ==
  /\ pc[h] = "m_send"
  /\ Goto(h, FromNonMuteGuard(h, loc[h], Settled(acts[h], "fail"),
                              violationRecords, heap))
  /\ UNCHANGED <<blockingRules, botRole, violationRecords, heap, timers, now,
                 received, meta, loc, registered, muted>>

\* index.ts:200, clearTimeout(record.timer)
ClearTimeout(pending, ref) == pending \ {ref}

\* index.ts:201, violationRecords.delete(recordKey)
DeleteRecord(map, key) == MapDelete(map, key)

\* index.ts:194-208: sendGroupMsg returns in the mute branch; the record is
\* cleared
MuteSendReturns(h) ==
  /\ pc[h] = "m_send"
  /\ timers' = ClearTimeout(timers, loc[h].record)
  /\ violationRecords' = DeleteRecord(violationRecords, KeyOf(h))
  /\ Goto(h, FromNonMuteGuard(h, loc[h], Settled(acts[h], "ok"),
                              violationRecords', heap))
  /\ UNCHANGED <<blockingRules, botRole, heap, now, received, meta, loc,
                 registered, muted>>

\* faulty variant: deleteMsg without the .catch of index.ts:213; a rejection
\* goes to the catch of index.ts:242 and the notice is not sent
NonMuteDeleteAborts(h) ==
  /\ pc[h] = "n_delete"
  /\ \E result \in Outcomes :
       Goto(h, IF result = "ok"
               THEN SendNonMute(h, loc[h], Settled(acts[h], result),
                                violationRecords, heap)
               ELSE Return(h, Settled(acts[h], result)))
  /\ UNCHANGED <<blockingRules, botRole, violationRecords, heap, timers, now,
                 received, meta, loc, registered, muted>>

\* index.ts:211-241: deleteMsg settles in the non-mute branch (a rejection
\* is caught by .catch); the notice is composed and sendGroupMsg is called
NonMuteDeleteSettles(h) ==
  /\ pc[h] = "n_delete"
  /\ \E result \in Outcomes :
       Goto(h, SendNonMute(h, loc[h], Settled(acts[h], result),
                           violationRecords, heap))
  /\ UNCHANGED <<blockingRules, botRole, violationRecords, heap, timers, now,
                 received, meta, loc, registered, muted>>

\* index.ts:241-250: sendGroupMsg settles in the non-mute branch
NonMuteSendSettles(h) ==
  /\ pc[h] = "n_send"
  /\ \E result \in Outcomes : Goto(h, Return(h, Settled(acts[h], result)))
  /\ UNCHANGED <<blockingRules, botRole, violationRecords, heap, timers, now,
                 received, meta, loc, registered, muted>>

\* index.ts:162-165: the decay callback of a record runs
TimerFires(ref) ==
  /\ ref \in timers
  /\ heap[ref].due <= now
  /\ violationRecords' = DeleteRecord(violationRecords, heap[ref].key)
  /\ timers' = timers \ {ref}
  /\ UNCHANGED <<blockingRules, botRole, heap, now, received, pc, meta, loc,
                 acts, sent, nextCalls, registered, muted>>

\* the clock advances, to the next due timer at most; a due timer runs
\* before the clock moves on.  The program reads the clock only when it sets
\* a timer, so the clock stands while no timer is pending.
Tick ==
  /\ now < MaxTicks * TickMs
  /\ timers # {}
  /\ \A ref \in timers : heap[ref].due > now
  /\ now' = IF \E ref \in timers : heap[ref].due < now + TickMs
            THEN CHOOSE t \in {heap[ref].due : ref \in timers} :
                   \A ref \in timers : t <= heap[ref].due
            ELSE now + TickMs
  /\ UNCHANGED <<blockingRules, botRole, violationRecords, heap, timers, received, pc,
                 meta, loc, acts, sent, nextCalls, registered, muted>>

Next ==
  \/ \E h \in Handlers : Receive(h)
  \/ \E h \in Handlers : LookupFails(h)
  \/ \E h \in Handlers : LookupNotElevated(h)
  \/ \E h \in Handlers : FilterThrows(h)
  \/ \E h \in Handlers : Moderate(h)
  \/ \E h \in Handlers : MuteDeleteSettles(h)
  \/ \E h \in Handlers : MuteBanFails(h)
  \/ \E h \in Handlers : MuteBanReturns(h)
  \/ \E h \in Handlers : MuteSendFails(h)
  \/ \E h \in Handlers : MuteSendReturns(h)
  \/ \E h \in Handlers : NonMuteDeleteSettles(h)
  \/ \E h \in Handlers : NonMuteSendSettles(h)
  \/ \E ref \in timers : TimerFires(ref)
  \/ Tick

Spec == Init /\ [][Next]_vars

(***************************************************************************)
(* Vocabulary of the properties                                            *)
(***************************************************************************)
\* invocation h has called adapter operation op
Did(h, op) == \E i \in 1..Len(acts[h]) : acts[h][i].op = op

\* a call of op by invocation h was rejected
Failed(h, op) ==
  \E i \in 1..Len(acts[h]) : acts[h][i].op = op /\ acts[h][i].result = "fail"

\* invocation h has run the rule loop to its end
Filtered(h) == loc[h].filtered

\* the mute threshold of the group of invocation h
ThresholdOf(h) == ConfigOf(h).muteConfig.threshold

\* invocation h leaves the lookup in this step
LeavesLookup(h) == pc[h] = "lookup" /\ pc'[h] # "lookup"

(***************************************************************************)
(* C1: a qualifying message gets shouldMute exactly when the number of     *)
(* qualifying messages since the creation of the key's record, itself      *)
(* included, has reached the threshold; the stored count is that number;   *)
(* and a qualifying message that finds no record for its key (the record   *)
(* was cleared, or never made) is counted as the first.                    *)
(***************************************************************************)
C1_RegisterStep(h) ==
  (LeavesLookup(h) /\ loc'[h].record # 0) =>
    LET ref == loc'[h].record IN
    /\ heap'[ref].count = registered'[ref]
    /\ loc'[h].shouldMute = (registered'[ref] >= ThresholdOf(h))
    /\ ~MapHas(violationRecords, KeyOf(h)) => heap'[ref].count = 1
    /\ MapHas(violationRecords, KeyOf(h)) =>
         heap'[ref].count = heap[ref].count + 1

C1_ThresholdCount ==
  /\ [](\A ref \in 1..Len(heap) : heap[ref].count = registered[ref])
  /\ [][\A h \in Handlers : C1_RegisterStep(h)]_vars

\* the third qualifying message of a key under threshold 3 is the first
\* with shouldMute
C1_Witness ==
  \E h \in Handlers :
    /\ loc[h].record # 0
    /\ ThresholdOf(h) = 3
    /\ registered[loc[h].record] = 3
    /\ loc[h].shouldMute

(***************************************************************************)
(* C2: an invocation whose registration gave shouldMute has, when it       *)
(* ends, cancelled the decay timer of its record and removed the record    *)
(* from the map, whatever the delete, mute and send calls returned.        *)
(***************************************************************************)
C2_ClearedOnMute ==
  \A h \in Handlers :
    (pc[h] = "done" /\ loc[h].shouldMute) =>
      /\ loc[h].record \notin timers
      /\ ~(MapHas(violationRecords, KeyOf(h))
           /\ violationRecords[KeyOf(h)] = loc[h].record)

(***************************************************************************)
(* C3: a record on which no mute was issued, and on which no running       *)
(* invocation is about to issue one, is in the map, with its count, at     *)
(* every time before its creation time plus 24h, and is not in the map     *)
(* after that time; the time does not move.                                *)
(***************************************************************************)
InMap(ref) ==
  /\ MapHas(violationRecords, heap[ref].key)
  /\ violationRecords[heap[ref].key] = ref

\* an invocation that is still running got shouldMute on the record
MutePending(ref) ==
  \E h \in Handlers :
    loc[h].record = ref /\ loc[h].shouldMute /\ pc[h] # "done"

C3_DecayWindow ==
  /\ [](\A ref \in 1..Len(heap) :
          (~muted[ref] /\ ~MutePending(ref)) =>
            /\ now < heap[ref].due => InMap(ref) /\ heap[ref].count = registered[ref]
            /\ now > heap[ref].due => ~InMap(ref))
  /\ [][\A ref \in 1..Len(heap) : heap'[ref].due = heap[ref].due]_vars

(***************************************************************************)
(* C4: when setGroupBan fails for a message whose violation reached the    *)
(* threshold, sendGroupMsg is not called for that message.                 *)
(***************************************************************************)
C4_NoSendAfterFailedMute ==
  \A h \in Handlers :
    (loc[h].shouldMute /\ Failed(h, "ban")) => ~Did(h, "send")

C4_Witness ==
  \E h \in Handlers :
    /\ pc[h] = "done"
    /\ loc[h].shouldMute
    /\ Failed(h, "ban")
    /\ loc[h].modifiedMessage # loc[h].message

(***************************************************************************)
(* C5: an invocation that has ended has called next() exactly once; one    *)
(* that has not ended has not called it and can always take a step (no     *)
(* failure leaves it without a continuation).                              *)
(***************************************************************************)
HandlerStep(h) ==
  \/ LookupFails(h) \/ LookupNotElevated(h) \/ FilterThrows(h) \/ Moderate(h)
  \/ MuteDeleteSettles(h) \/ MuteBanFails(h) \/ MuteBanReturns(h)
  \/ MuteSendFails(h) \/ MuteSendReturns(h)
  \/ NonMuteDeleteSettles(h) \/ NonMuteSendSettles(h)

C5_NextOnce ==
  \A h \in Handlers :
    /\ pc[h] = "done" => nextCalls[h] = 1
    /\ pc[h] = "idle" => nextCalls[h] = 0
    /\ pc[h] \notin {"idle", "done"} => nextCalls[h] = 0 /\ ENABLED HandlerStep(h)

\* a message whose delete and mute both failed was passed on
C5_Witness ==
  \E h \in Handlers :
    /\ pc[h] = "done"
    /\ nextCalls[h] = 1
    /\ Failed(h, "delete")
    /\ Failed(h, "ban")

(***************************************************************************)
(* C6: an invocation for a group without an enabled policy, or while the   *)
(* bot is neither admin nor owner, makes no adapter call, and none of its  *)
(* steps changes the map, a record or the pending timers.                  *)
(***************************************************************************)
Unmoderated(h) ==
  \/ botRole \notin {"admin", "owner"}
  \/ ConfigGet(blockingRules, meta[h].guildId) = <<>>
  \/ ~ConfigGet(blockingRules, meta[h].guildId)[1].enable

C6_UnmoderatedFrame ==
  /\ [](\A h \in Handlers :
          (pc[h] # "idle" /\ Unmoderated(h)) =>
            acts[h] = <<>> /\ loc[h].record = 0)
  /\ [][\A h \in Handlers :
          (pc'[h] # pc[h] /\ Unmoderated(h)') =>
            UNCHANGED <<violationRecords, heap, timers>>]_vars

\* a group message that a rule of its enabled, muting policy matches,
\* handled while the bot is a plain member
C6_Witness ==
  \E h \in Handlers :
    /\ pc[h] = "done"
    /\ meta[h].kind = "group"
    /\ meta[h].guildId = "10004"
    /\ loc[h].message = TxtBad
    /\ botRole = "member"
    /\ acts[h] = <<>>

(***************************************************************************)
(* C7: when every rule of the policy is disabled, or no enabled rule       *)
(* matches the message, the loop leaves the text and both flags as they    *)
(* were, the invocation makes no adapter call, and the step that runs the  *)
(* loop changes no record.                                                 *)
(***************************************************************************)
\* no enabled rule of the policy matches the message
NoRuleMatches(groupConfig, message) ==
  \A i \in 1..Len(groupConfig.blockingWords) :
    LET rule == groupConfig.blockingWords[i] IN
    \/ ~rule.enable
    \/ ValidPattern(rule.pattern) /\ ~RegexTest(message, rule.pattern)

Unmatched ==
  {pair \in AllGroupRules \X AllMessages : NoRuleMatches(pair[1], pair[2])}

C7_NoMatchFrame ==
  /\ [](\A h \in Handlers :
          (Filtered(h) /\ <<ConfigOf(h), loc[h].message>> \in Unmatched) =>
            /\ loc[h].modifiedMessage = loc[h].message
            /\ ~loc[h].needRecall
            /\ ~loc[h].hasTriggerMuteRule
            /\ acts[h] = <<>>
            /\ loc[h].record = 0)
  /\ [][\A h \in Handlers :
          (LeavesLookup(h) /\ Filtered(h)'
           /\ <<ConfigOf(h), loc'[h].message>> \in Unmatched) =>
            UNCHANGED <<violationRecords, heap, timers>>]_vars

\* a message holding the patterns of rules that are all disabled
C7_Witness ==
  \E h \in Handlers :
    /\ pc[h] = "done"
    /\ Filtered(h)
    /\ meta[h].guildId = "10006"
    /\ loc[h].message = TxtBadX
    /\ acts[h] = <<>>

(***************************************************************************)
(* C8: on a message made of markup tokens only, where a pattern can occur  *)
(* only inside a token, no rule matches: the loop leaves the text as it    *)
(* was and sets neither flag.                                              *)
(***************************************************************************)
TokensOnly(elements) ==
  /\ elements # <<>>
  /\ \A i \in 1..Len(elements) :
       elements[i].type \in {"at", "image", "face", "mface"}

C8_NoMatchInsideToken ==
  \A h \in Handlers :
    (Filtered(h) /\ TokensOnly(meta[h].elements)) =>
      /\ loc[h].modifiedMessage = loc[h].message
      /\ ~loc[h].needRecall
      /\ ~loc[h].hasTriggerMuteRule

TxtEmptyMention == <<"[", "C", "Q", ":", "a", "t", ",", "q", "q", "=", "]">>

TxtFixedThisIs ==
  <<"F", "i", "x", "e", "d", ":", " ", "t", "h", "i", "s", " ", "i", "s", " ",
    "*", "*", "*">>

C10_ReplaceOnlyPattern ==
  \A h \in Handlers :
    (pc[h] = "done" /\ Filtered(h) /\ meta[h].guildId = "10001"
     /\ loc[h].message = TxtThisIsSpam) =>
      /\ acts[h] # <<>>
      /\ \A i \in 1..Len(acts[h]) : acts[h][i].op = "send"
      /\ Len(acts[h]) = 1
      /\ Contains(sent[h], TxtWarning)
      /\ Contains(sent[h], TxtFixedThisIs)

(***************************************************************************)
(* C11: the adapter calls of one invocation are, in this order, at most    *)
(* one deleteMsg, at most one setGroupBan and at most one sendGroupMsg.    *)
(***************************************************************************)
Rank(op) == CASE op = "delete" -> 1 [] op = "ban" -> 2 [] op = "send" -> 3

C11_OrderedOnce ==
  \A h \in Handlers :
    \A i, j \in 1..Len(acts[h]) :
      i < j => Rank(acts[h][i].op) < Rank(acts[h][j].op)

\* a message that was recalled, then muted, then answered with the notice
C11_Witness ==
  \E h \in Handlers :
    /\ pc[h] = "done"
    /\ Len(acts[h]) = 3
    /\ acts[h][1].op = "delete" /\ acts[h][2].op = "ban" /\ acts[h][3].op = "send"

(***************************************************************************)
(* C12: an invocation that has run the rule loop has called deleteMsg      *)
(* exactly when a rule that matched in the loop has recall set, with and   *)
(* without shouldMute.                                                     *)
(***************************************************************************)
C12_DeleteIffRecall ==
  \A h \in Handlers :
    Filtered(h) => (Did(h, "delete") <=> loc[h].needRecall)

\* one message recalled in the mute branch, another recalled and answered
\* in the non-mute branch
C12_Witness ==
  \E h1, h2 \in Handlers :
    /\ pc[h1] = "done" /\ loc[h1].shouldMute /\ Did(h1, "delete")
    /\ pc[h2] = "done" /\ Filtered(h2) /\ ~loc[h2].shouldMute
    /\ Did(h2, "delete") /\ Did(h2, "send")

(***************************************************************************)
(* C13: after a deleteMsg call has failed, the invocation goes on: with    *)
(* shouldMute it calls setGroupBan and, when that returns, sendGroupMsg;   *)
(* without shouldMute it calls sendGroupMsg.                               *)
(***************************************************************************)
Succeeded(h, op) ==
  \E i \in 1..Len(acts[h]) : acts[h][i].op = op /\ acts[h][i].result = "ok"

C13_DeleteFailureGoesOn ==
  \A h \in Handlers :
    Failed(h, "delete") =>
      /\ loc[h].shouldMute => Did(h, "ban")
      /\ (loc[h].shouldMute /\ Succeeded(h, "ban")) => Did(h, "send")
      /\ ~loc[h].shouldMute => Did(h, "send")

\* a failed recall followed by a mute and its notice
C13_Witness ==
  \E h \in Handlers :
    /\ pc[h] = "done"
    /\ Failed(h, "delete")
    /\ Succeeded(h, "ban")
    /\ Succeeded(h, "send")

(***************************************************************************)
(* C14: the registration of a qualifying message adds exactly 1 to the     *)
(* count of its key's record (a new record gets count 1), however many     *)
(* mute-triggering rules the message matched, and changes no other record; *)
(* no other step changes a count.  So the count of a record is the number  *)
(* of registrations on it, whatever the interleaving.                      *)
(***************************************************************************)
C14_RegisterAddsOne(h) ==
  LeavesLookup(h) =>
    LET key == KeyOf(h)
        had == MapHas(violationRecords, key)
        ref == loc'[h].record
    IN /\ loc'[h].muteCount \in {0, 1}
       /\ ref # 0 =>
            /\ ref = (IF had THEN violationRecords[key] ELSE Len(heap) + 1)
            /\ heap'[ref].count = (IF had THEN heap[ref].count ELSE 0) + 1
            /\ MapHas(violationRecords', key) /\ violationRecords'[key] = ref
       /\ \A other \in 1..Len(heap) :
            other # ref => heap'[other].count = heap[other].count

C14_OneIncrement ==
  /\ [][\A h \in Handlers : C14_RegisterAddsOne(h)]_vars
  /\ [][(\A h \in Handlers : ~LeavesLookup(h)) => heap' = heap]_vars
  /\ [](\A ref \in 1..Len(heap) : registered[ref] = heap[ref].count)

\* two running invocations have registered, on one record, messages that
\* each matched two mute-triggering rules
C14_Witness ==
  \E h1, h2 \in Handlers :
    /\ h1 # h2
    /\ pc[h1] \notin {"idle", "lookup", "done"}
    /\ pc[h2] \notin {"idle", "lookup", "done"}
    /\ loc[h1].message = TxtBadX /\ loc[h2].message = TxtBadX
    /\ loc[h1].record # 0 /\ loc[h1].record = loc[h2].record
    /\ heap[loc[h1].record].count = 2

(***************************************************************************)
(* C15: the correction line of the non-mute notice holds the corrected     *)
(* text with every "&" outside a markup token written as "&amp;" and with  *)
(* the markup tokens, an "&" inside them included, as they were.           *)
(***************************************************************************)
\* a markup token starts at position i of the text
TokenStarts(text, i) ==
  /\ i + 3 <= Len(text)
  /\ text[i] = "[" /\ text[i + 1] = "C" /\ text[i + 2] = "Q" /\ text[i + 3] = ":"

\* the text from position i on, "&" escaped outside the markup tokens
RECURSIVE EscapeOutsideTokens(_, _, _)
EscapeOutsideTokens(text, i, inToken) ==
  IF i > Len(text) THEN <<>>
  ELSE IF inToken
       THEN <<text[i]>> \o EscapeOutsideTokens(text, i + 1, text[i] # "]")
       ELSE IF TokenStarts(text, i)
            THEN <<text[i]>> \o EscapeOutsideTokens(text, i + 1, TRUE)
            ELSE (IF text[i] = "&" THEN <<"&", "a", "m", "p", ";">>
                  ELSE <<text[i]>>)
                 \o EscapeOutsideTokens(text, i + 1, FALSE)

C15_TokensIntact ==
  \A h \in Handlers :
    (Filtered(h) /\ ~loc[h].shouldMute /\ Did(h, "send")
     /\ loc[h].hasValidReplace /\ loc[h].modifiedMessage # loc[h].message) =>
      Contains(sent[h],
               ConfigOf(h).correctPrefix
               \o EscapeOutsideTokens(loc[h].modifiedMessage, 1, FALSE)
               \o NewLine)

(***************************************************************************)
(* C16 (as stated): the mute notice for a duration of 3661 seconds names   *)
(* 1 hour and 1 minute; the one for 60 seconds names 1 minute and no hour. *)
(***************************************************************************)
DurationOf(h) == ConfigOf(h).muteConfig.duration

\* invocation h has composed its mute notice
MuteNoticeSent(h) == loc[h].shouldMute /\ Succeeded(h, "ban")

C16_Original ==
  \A h \in Handlers :
    /\ (MuteNoticeSent(h) /\ DurationOf(h) = 3661) =>
         Contains(sent[h], <<"<ci,yibeijinyan>", " ", "1", "<xiaoshi>",
                            "1", "<fenzhong>">>)
    /\ (MuteNoticeSent(h) /\ DurationOf(h) = 60) =>
         /\ Contains(sent[h], <<"<ci,yibeijinyan>", " ", "1", "<fenzhong>">>)
         /\ ~Contains(sent[h], <<"<xiaoshi>">>)

(***************************************************************************)
(* C16 (amended): the mute notice ends with the duration as an hour unit   *)
(* (the whole hours) and a minute unit (the remaining seconds divided by   *)
(* 60, rounded up), a unit being left out when it is zero.  3661 seconds   *)
(* are rendered as 1 hour and 2 minutes, 60 seconds as 1 minute and no     *)
(* hour.                                                                   *)
(***************************************************************************)
EndsWith(s, t) ==
  /\ Len(t) <= Len(s)
  /\ SubSeq(s, Len(s) - Len(t) + 1, Len(s)) = t

C16_Duration ==
  \A h \in Handlers :
    /\ (MuteNoticeSent(h) /\ DurationOf(h) = 3661) =>
         EndsWith(sent[h], <<"<ci,yibeijinyan>", " ", "1", "<xiaoshi>",
                            "2", "<fenzhong>">>)
    /\ (MuteNoticeSent(h) /\ DurationOf(h) = 60) =>
         /\ EndsWith(sent[h], <<"<ci,yibeijinyan>", " ", "1", "<fenzhong>">>)
         /\ ~Contains(sent[h], <<"<xiaoshi>">>)

\* a mute of 3661 seconds was issued and its notice sent
C16_Witness ==
  \E h \in Handlers :
    /\ pc[h] = "done"
    /\ MuteNoticeSent(h)
    /\ Succeeded(h, "send")
    /\ DurationOf(h) = 3661

(***************************************************************************)
(* C17: a record that has left the map never returns to it, and a step     *)
(* that removes a record that has already left the map (the clear after a  *)
(* mute by an invocation that holds it, or its decay callback) leaves the  *)
(* map as it was.                                                          *)
(***************************************************************************)
\* this step is a removal aimed at the record
RemovalOf(ref) ==
  \/ TimerFires(ref)
  \/ \E h \in Handlers : MuteSendReturns(h) /\ loc[h].record = ref

C17_RemovalIdempotent ==
  [][\A ref \in 1..Len(heap) :
       ~InMap(ref) =>
         /\ ~InMap(ref)'
         /\ RemovalOf(ref) => violationRecords' = violationRecords]_vars

(***************************************************************************)
(* C18: every record in the map has a count of at least 1, in every state  *)
(* between two steps; a key that was cleared or has decayed is not in the  *)
(* map.                                                                    *)
(***************************************************************************)
C18_CountPositive ==
  \A key \in DOMAIN violationRecords :
    /\ violationRecords[key] \in 1..Len(heap)
    /\ heap[violationRecords[key]].count >= 1

\* a record seen in the map with count 1 while the invocation that made
\* it waits for sendGroupMsg
C18_Witness ==
  \E h \in Handlers :
    /\ pc[h] = "n_send"
    /\ loc[h].record # 0
    /\ InMap(loc[h].record)
    /\ heap[loc[h].record].count = 1

(***************************************************************************)
(* C19: the decay timer of a record is pending exactly while the record    *)
(* is in the map, and no two pending timers belong to records of one key.  *)
(***************************************************************************)
C19_TimerOwnsRecord ==
  /\ \A ref \in 1..Len(heap) : (ref \in timers) <=> InMap(ref)
  /\ \A r1, r2 \in timers : heap[r1].key = heap[r2].key => r1 = r2

(***************************************************************************)
(* C20: while no adapter call has failed, setGroupBan does not return for  *)
(* a record that is in the map and on which a mute was already issued.     *)
(***************************************************************************)
NoCallFailed ==
  \A h \in Handlers :
    \A i \in 1..Len(acts[h]) : acts[h][i].result # "fail"

C20_OneMutePerRecord ==
  [][\A h \in Handlers :
       (MuteBanReturns(h) /\ NoCallFailed /\ InMap(loc[h].record)) =>
         ~muted[loc[h].record]]_vars

====
